---- MODULE Spec2Model ----
(***************************************************************************)
(* The serverless handlers of my-ai-app: the shared helpers of utils.js    *)
(* (validateApiKey, parseRequestBody, validateTextLength, callGoogleAPI,   *)
(* createSuccessResponse), the v1.2.0 handlers built on them and the       *)
(* handlers netlify/functions/generate-text.js and generate-audio.js.      *)
(*                                                                         *)
(* JavaScript values are records [t, v]: t is the typeof-like tag, v the   *)
(* content.  A string is a sequence of chunks [c, n]: the text c taking n  *)
(* UTF-16 code units ('a'.repeat(5001) is one chunk of 5001 units), so     *)
(* that length and emptiness are computed as the code computes them.  An   *)
(* array is a sequence of values, an object a sequence of members          *)
(* [key, val] in insertion order (a key is one chunk of text).  A JSON     *)
(* text is a string whose content is a sequence of tokens.                 *)
(***************************************************************************)
EXTENDS Integers, Sequences, FiniteSets, TLC

VARIABLES env, handler, body, pc, steps, request, timerArmed, aborted, requests,
          upStatus, upBody, netLog, apiResult, response, thrown, call, ret, pool

vars == <<env, handler, body, pc, steps, request, timerArmed, aborted, requests,
          upStatus, upBody, netLog, apiResult, response, thrown, call, ret, pool>>

(* ------------------------------------------------------------------ *)
(* JavaScript values                                                  *)
(* ------------------------------------------------------------------ *)
Undefined == [t |-> "undefined", v |-> <<>>]
Null == [t |-> "null", v |-> <<>>]
Bool(b) == [t |-> "boolean", v |-> b]
Num(n) == [t |-> "number", v |-> n]
Str(chunks) == [t |-> "string", v |-> chunks]
Arr(elems) == [t |-> "array", v |-> elems]
Obj(members) == [t |-> "object", v |-> members]

Chunk(c, n) == [c |-> c, n |-> n]
\* 'a'.repeat(n); the empty string when n = 0
Rep(n) == Str(IF n = 0 THEN <<>> ELSE <<Chunk("a", n)>>)
EmptyStr == Str(<<>>)
Member(k, x) == [key |-> k, val |-> x]

RECURSIVE ChunksLen(_)
ChunksLen(chunks) ==
    IF chunks = <<>> THEN 0 ELSE Head(chunks).n + ChunksLen(Tail(chunks))

\* String.prototype.length
StrLen(x) == ChunksLen(x.v)

RECURSIVE Digits(_)
Digits(n) == IF n < 10 THEN 1 ELSE 1 + Digits(n \div 10)

\* `${n}` for a non-negative integer n
NumChunk(n) == Chunk(ToString(n), Digits(n))

\* ToBoolean(x): what !x negates
Truthy(x) ==
    CASE x.t = "undefined" -> FALSE
      [] x.t = "null" -> FALSE
      [] x.t = "boolean" -> x.v
      [] x.t = "number" -> x.v # 0
      [] x.t = "string" -> x.v # <<>>
      [] OTHER -> TRUE

RECURSIVE Lookup(_, _)
Lookup(members, k) ==
    IF members = <<>> THEN Undefined
    ELSE IF Head(members).key = k THEN Head(members).val
    ELSE Lookup(Tail(members), k)

\* x[k] for a value x that is neither null nor undefined: a property of an
\* object; a primitive or an array has none of the keys the handlers read
GetProp(x, k) == IF x.t = "object" THEN Lookup(x.v, k) ELSE Undefined

\* x?.[i] on an array
GetIndex(x, i) ==
    IF x.t = "array" /\ i + 1 <= Len(x.v) THEN x.v[i + 1] ELSE Undefined

\* x?.k
OptProp(x, k) == IF x.t \in {"undefined", "null"} THEN Undefined ELSE GetProp(x, k)
OptIndex(x, i) == IF x.t \in {"undefined", "null"} THEN Undefined ELSE GetIndex(x, i)

\* obj[k] = x: an existing key keeps its place, a new one is appended
RECURSIVE SetMember(_, _, _)
SetMember(members, k, x) ==
    IF members = <<>> THEN <<Member(k, x)>>
    ELSE IF Head(members).key = k THEN <<Member(k, x)>> \o Tail(members)
    ELSE <<Head(members)>> \o SetMember(Tail(members), k, x)

(* ------------------------------------------------------------------ *)
(* JSON texts: JSON.stringify and JSON.parse                          *)
(* ------------------------------------------------------------------ *)
Tok(k) == [k |-> k, s |-> <<>>, n |-> 0]
StrTok(chunks) == [k |-> "str", s |-> chunks, n |-> 0]
NumTok(n) == [k |-> "num", s |-> <<>>, n |-> n]
\* a lexically invalid piece of text, such as the bare word in '{ invalid json'
BadTok == Tok("bad")

RECURSIVE JSONStringify(_), StringifyElems(_), StringifyMembers(_)
JSONStringify(x) ==
    CASE x.t = "null" -> <<Tok("null")>>
      [] x.t = "boolean" -> <<Tok(IF x.v THEN "true" ELSE "false")>>
      [] x.t = "number" -> <<NumTok(x.v)>>
      [] x.t = "string" -> <<StrTok(x.v)>>
      [] x.t = "array" -> <<Tok("[")>> \o StringifyElems(x.v) \o <<Tok("]")>>
      [] x.t = "object" -> <<Tok("{")>> \o StringifyMembers(x.v) \o <<Tok("}")>>
StringifyElems(elems) ==
    IF elems = <<>> THEN <<>>
    ELSE JSONStringify(Head(elems)) \o
         (IF Tail(elems) = <<>> THEN <<>> ELSE <<Tok(",")>> \o StringifyElems(Tail(elems)))
StringifyMembers(members) ==
    IF members = <<>> THEN <<>>
    ELSE <<StrTok(<<Chunk(Head(members).key, Len(Head(members).key))>>), Tok(":")>> \o
         JSONStringify(Head(members).val) \o
         (IF Tail(members) = <<>> THEN <<>> ELSE <<Tok(",")>> \o StringifyMembers(Tail(members)))

ParseOk(x, next) == [ok |-> TRUE, val |-> x, next |-> next]
ParseFail == [ok |-> FALSE, val |-> Undefined, next |-> 0]
IsTok(text, i, k) == i <= Len(text) /\ text[i].k = k

\* A recursive-descent parser of the JSON grammar.  ParseValue(text, i) reads
\* one value from position i; r \in {ParseValue(..)} names its result, computed
\* once.
RECURSIVE ParseValue(_, _), ParseElems(_, _, _), ParseMembers(_, _, _)
ParseValue(text, i) ==
    IF i > Len(text) THEN ParseFail
    ELSE CASE text[i].k = "null" -> ParseOk(Null, i + 1)
           [] text[i].k = "true" -> ParseOk(Bool(TRUE), i + 1)
           [] text[i].k = "false" -> ParseOk(Bool(FALSE), i + 1)
           [] text[i].k = "num" -> ParseOk(Num(text[i].n), i + 1)
           [] text[i].k = "str" -> ParseOk(Str(text[i].s), i + 1)
           [] text[i].k = "[" ->
                IF IsTok(text, i + 1, "]") THEN ParseOk(Arr(<<>>), i + 2)
                ELSE ParseElems(text, i + 1, <<>>)
           [] text[i].k = "{" ->
                IF IsTok(text, i + 1, "}") THEN ParseOk(Obj(<<>>), i + 2)
                ELSE ParseMembers(text, i + 1, <<>>)
           [] OTHER -> ParseFail
ParseElems(text, i, acc) ==
    CHOOSE out \in
      {IF ~r.ok THEN ParseFail
       ELSE IF IsTok(text, r.next, ",") THEN ParseElems(text, r.next + 1, Append(acc, r.val))
       ELSE IF IsTok(text, r.next, "]") THEN ParseOk(Arr(Append(acc, r.val)), r.next + 1)
       ELSE ParseFail : r \in {ParseValue(text, i)}} : TRUE
ParseMembers(text, i, acc) ==
    IF ~(IsTok(text, i, "str") /\ IsTok(text, i + 1, ":")) THEN ParseFail
    ELSE CHOOSE out \in
      {IF ~r.ok THEN ParseFail
       ELSE IF IsTok(text, r.next, ",")
            THEN ParseMembers(text, r.next + 1, SetMember(acc, text[i].s[1].c, r.val))
       ELSE IF IsTok(text, r.next, "}")
            THEN ParseOk(Obj(SetMember(acc, text[i].s[1].c, r.val)), r.next + 1)
       ELSE ParseFail : r \in {ParseValue(text, i + 2)}} : TRUE

\* JSON.parse(text): the value, or a SyntaxError
JSONParse(text) ==
    CHOOSE out \in
      {IF r.ok /\ r.next = Len(text) + 1
       THEN [threw |-> FALSE, val |-> r.val]
       ELSE [threw |-> TRUE, val |-> Undefined] : r \in {ParseValue(text, 1)}} : TRUE

(* ------------------------------------------------------------------ *)
(* Program constants                                                  *)
(* ------------------------------------------------------------------ *)
MAX_PROMPT_LENGTH == 5000
MAX_TEXT_LENGTH == 3000
DEFAULT_MAX_LENGTH == 5000
API_TIMEOUT_TEXT == 30000
API_TIMEOUT_AUDIO == 45000

\* A string literal of the source: its text (named in ASCII) and the number of
\* code units the literal has in the source.
Lit(c, n) == Str(<<Chunk(c, n)>>)
\* String concatenation and template interpolation of strings
Concat(a, b) == Str(a.v \o b.v)
NumStr(n) == Str(<<NumChunk(n)>>)

\* { statusCode, body: JSON.stringify({ error: { message } }) }
ErrorResponse(status, message) ==
    [statusCode |-> status,
     body |-> Str(JSONStringify(Obj(<<Member("error", Obj(<<Member("message", message)>>))>>)))]

(* ------------------------------------------------------------------ *)
(* utils.js                                                           *)
(* ------------------------------------------------------------------ *)
MsgApiKeyMissing == Lit("API key is not set. Check the environment configuration.", 20)
MsgBodyEmpty == Lit("Request body must not be empty.", 8)
MsgJsonParseFailed(m) == Concat(Lit("JSON parse failed: ", 11), m)
MsgFieldInvalid(fieldName) == Concat(fieldName, Lit(" must be non-empty and a string.", 13))
MsgFieldTooLong(fieldName, maxLength, length) ==
    Concat(fieldName,
      Concat(Lit(" exceeds maximum length ", 8),
        Concat(NumStr(maxLength),
          Concat(Lit(" chars (current: ", 8),
            Concat(NumStr(length), Lit(").", 2))))))
MsgGoogleApiError(status, errorText) ==
    Concat(Lit("Google API error (", 15),
      Concat(NumStr(status), Concat(Lit("): ", 3), errorText)))
MsgUnparsableResponse(m) == Concat(Lit("Cannot parse Google API response: ", 20), m)
MsgTimeout(timeout) ==
    Concat(Lit("Request timed out (", 5),
      Concat(NumStr(timeout), Lit("ms). Retry later.", 10)))
MsgNetworkError(m) == Concat(Lit("Network error: ", 6), m)

\* validateApiKey with a test for undefined in place of the truthiness test
validateApiKeyUndefinedOnly(apiKey) ==
    IF apiKey.t = "undefined"
    THEN [success |-> FALSE, error |-> ErrorResponse(500, MsgApiKeyMissing)]
    ELSE [success |-> TRUE, apiKey |-> apiKey]

\* validateApiKey(): apiKey is process.env.GEMINI_API_KEY
validateApiKey(apiKey) ==
    IF ~Truthy(apiKey)
    THEN [success |-> FALSE, error |-> ErrorResponse(500, MsgApiKeyMissing)]
    ELSE [success |-> TRUE, apiKey |-> apiKey]

\* The message of the SyntaxError JSON.parse throws (engine text)
SyntaxErrorMessage == Lit("Unexpected token in JSON", 24)

\* parseRequestBody whose parse failure also hands back the text it was given
parseRequestBodyKeepingInput(b) ==
    IF ~Truthy(b)
    THEN [success |-> FALSE, error |-> ErrorResponse(400, MsgBodyEmpty)]
    ELSE LET p == JSONParse(b.v) IN
         IF ~p.threw
         THEN [success |-> TRUE, data |-> p.val]
         ELSE [success |-> FALSE, data |-> b,
               error |-> ErrorResponse(400, MsgJsonParseFailed(SyntaxErrorMessage))]

\* parseRequestBody(body)
parseRequestBody(b) ==
    IF ~Truthy(b)
    THEN [success |-> FALSE, error |-> ErrorResponse(400, MsgBodyEmpty)]
    ELSE LET p == JSONParse(b.v) IN
         IF ~p.threw
         THEN [success |-> TRUE, data |-> p.val]
         ELSE [success |-> FALSE,
               error |-> ErrorResponse(400, MsgJsonParseFailed(SyntaxErrorMessage))]

\* A default parameter value: taken when the argument is undefined
Default(arg, dflt) == IF arg.t = "undefined" THEN dflt ELSE arg

\* validateTextLength with >= in place of > in the length test
validateTextLengthInclusive(text, maxLengthArg, fieldNameArg) ==
    LET maxLength == Default(maxLengthArg, Num(DEFAULT_MAX_LENGTH))
        fieldName == Default(fieldNameArg, Lit("text", 4)) IN
    IF ~Truthy(text) \/ text.t # "string"
    THEN [valid |-> FALSE, error |-> ErrorResponse(400, MsgFieldInvalid(fieldName))]
    ELSE IF StrLen(text) >= maxLength.v
    THEN [valid |-> FALSE,
          error |-> ErrorResponse(400, MsgFieldTooLong(fieldName, maxLength.v, StrLen(text)))]
    ELSE [valid |-> TRUE]

\* validateTextLength(text, maxLength = 5000, fieldName = 'text')
validateTextLength(text, maxLengthArg, fieldNameArg) ==
    LET maxLength == Default(maxLengthArg, Num(DEFAULT_MAX_LENGTH))
        fieldName == Default(fieldNameArg, Lit("text", 4)) IN
    IF ~Truthy(text) \/ text.t # "string"
    THEN [valid |-> FALSE, error |-> ErrorResponse(400, MsgFieldInvalid(fieldName))]
    ELSE IF StrLen(text) > maxLength.v
    THEN [valid |-> FALSE,
          error |-> ErrorResponse(400, MsgFieldTooLong(fieldName, maxLength.v, StrLen(text)))]
    ELSE [valid |-> TRUE]

\* createSuccessResponse(data)
createSuccessResponse(data) ==
    [statusCode |-> 200,
     headers |-> ("Content-Type" :> "application/json") @@
                 ("Cache-Control" :> "no-cache, no-store, must-revalidate"),
     body |-> Str(JSONStringify(data))]

\* response.ok
ResponseOk(status) == status >= 200 /\ status < 300

\* The not-ok path reporting every upstream error as 502
ApiHttpErrorAs502(status, errorText) ==
    [success |-> FALSE, error |-> ErrorResponse(502, MsgGoogleApiError(status, errorText))]

\* callGoogleAPI: the result it returns on each of its paths
ApiHttpError(status, errorText) ==
    [success |-> FALSE, error |-> ErrorResponse(status, MsgGoogleApiError(status, errorText))]
ApiUnparsable(m) ==
    [success |-> FALSE, error |-> ErrorResponse(500, MsgUnparsableResponse(m))]
ApiSuccess(data) == [success |-> TRUE, data |-> data]
ApiNetworkError(m) ==
    [success |-> FALSE, error |-> ErrorResponse(500, MsgNetworkError(m))]
\* The catch without its AbortError branch: a timeout reported as a network error
ApiTimeoutAsNetworkError(timeout) ==
    ApiNetworkError(Lit("The user aborted a request.", 27))
ApiTimeout(timeout) ==
    [success |-> FALSE, error |-> ErrorResponse(504, MsgTimeout(timeout))]

(* ------------------------------------------------------------------ *)
(* The handlers: what each does up to its first await                  *)
(* ------------------------------------------------------------------ *)
Handlers == {"generateTextV12", "generateAudioV12", "generateText", "generateAudio"}
V12Handlers == {"generateTextV12", "generateAudioV12"}
TextHandlers == {"generateTextV12", "generateText"}

NoError == [statusCode |-> 0, body |-> EmptyStr]
NoResponse == [statusCode |-> 0, body |-> EmptyStr]
NoResult == [success |-> FALSE, error |-> NoError]
Step(kind, failed, error) == [kind |-> kind, failed |-> failed, error |-> error]

\* The outcome of the synchronous part of a handler: it returned a response,
\* it threw (the promise rejects), or it issued the upstream request
\* (then with the URL, the payload and the timeout of the request; timeout 0
\* is a request without a timer)
NoRequest == [url |-> EmptyStr, payload |-> Undefined, timeout |-> 0]
Returned(ss, resp) ==
    [kind |-> "return", steps |-> ss, response |-> resp, thrown |-> "none",
     request |-> NoRequest]
Threw(ss, name) ==
    [kind |-> "throw", steps |-> ss, response |-> NoResponse, thrown |-> name,
     request |-> NoRequest]
Called(ss, url, payload, timeout) ==
    [kind |-> "call", steps |-> ss, response |-> NoResponse, thrown |-> "none",
     request |-> [url |-> url, payload |-> payload, timeout |-> timeout]]

\* The message of the TypeError thrown by destructuring null (engine text)
TypeErrorMessage == Lit("Cannot destructure property of null", 35)
MsgServerError(m) == Concat(Lit("Server error: ", 7), m)
\* The outermost catch of a v1.2.0 handler
CaughtResponse(m) == ErrorResponse(500, MsgServerError(m))

\* const { k } = data
Destructurable(data) == data.t \notin {"null", "undefined"}

GEMINI_MODEL == Lit("gemini-2.5-flash-preview-09-2025", 32)
GEMINI_TTS_MODEL == Lit("gemini-2.5-flash-preview-tts", 28)
VOICE_NAME == Lit("Kore", 4)

\* The URL of the upstream request: the credential is its key parameter
ApiUrl(model, apiKey) ==
    Concat(Lit("https://generativelanguage.googleapis.com/v1beta/models/", 56),
      Concat(model, Concat(Lit(":generateContent", 16), Concat(Lit("?key=", 5), apiKey))))

Parts(text) == Arr(<<Obj(<<Member("text", text)>>)>>)

TextPayload(prompt, systemInstruction) ==
    Obj(<<Member("contents", Arr(<<Obj(<<Member("parts", Parts(prompt))>>)>>))>> \o
        (IF Truthy(systemInstruction)
         THEN <<Member("systemInstruction", Obj(<<Member("parts", Parts(systemInstruction))>>))>>
         ELSE <<>>))

AudioPayload(text) ==
    Obj(<<Member("contents", Arr(<<Obj(<<Member("parts", Parts(text))>>)>>)),
          Member("generationConfig",
            Obj(<<Member("responseModalities", Arr(<<Lit("AUDIO", 5)>>)),
                  Member("speechConfig",
                    Obj(<<Member("voiceConfig",
                      Obj(<<Member("prebuiltVoiceConfig",
                        Obj(<<Member("voiceName", VOICE_NAME)>>))>>))>>))>>)),
          Member("model", GEMINI_TTS_MODEL)>>)

\* Step 4 of the v1.2.0 text handler: validate systemInstruction if provided
SystemInstructionCheck(systemInstruction) ==
    IF Truthy(systemInstruction)
    THEN validateTextLength(systemInstruction, Num(MAX_PROMPT_LENGTH),
                            Lit("systemInstruction", 17))
    ELSE [valid |-> TRUE]

StepOf(kind, r) ==
    IF kind \in {"credential", "parse"}
    THEN Step(kind, ~r.success, IF r.success THEN NoError ELSE r.error)
    ELSE Step(kind, ~r.valid, IF r.valid THEN NoError ELSE r.error)

\* generate-text (v1.2.0), steps 1 to 6
GenerateTextV12(apiKey, b) ==
    LET apiKeyResult == validateApiKey(apiKey)
        s1 == <<StepOf("credential", apiKeyResult)>>
        parseResult == parseRequestBody(b)
        s2 == Append(s1, StepOf("parse", parseResult))
        prompt == GetProp(parseResult.data, "prompt")
        systemInstruction == GetProp(parseResult.data, "systemInstruction")
        promptValidation == validateTextLength(prompt, Num(MAX_PROMPT_LENGTH), Lit("prompt", 6))
        s3 == Append(s2, StepOf("length", promptValidation))
        sysValidation == SystemInstructionCheck(systemInstruction)
        s4 == IF Truthy(systemInstruction)
              THEN Append(s3, StepOf("length", sysValidation)) ELSE s3
    IN  IF ~apiKeyResult.success THEN Returned(s1, apiKeyResult.error)
        ELSE IF ~parseResult.success THEN Returned(s2, parseResult.error)
        ELSE IF ~Destructurable(parseResult.data)
             THEN Returned(s2, CaughtResponse(TypeErrorMessage))
        ELSE IF ~promptValidation.valid THEN Returned(s3, promptValidation.error)
        ELSE IF ~sysValidation.valid THEN Returned(s4, sysValidation.error)
        ELSE Called(s4, ApiUrl(GEMINI_MODEL, apiKeyResult.apiKey),
                    TextPayload(prompt, systemInstruction), API_TIMEOUT_TEXT)

\* generate-audio (v1.2.0), steps 1 to 5
GenerateAudioV12(apiKey, b) ==
    LET apiKeyResult == validateApiKey(apiKey)
        s1 == <<StepOf("credential", apiKeyResult)>>
        parseResult == parseRequestBody(b)
        s2 == Append(s1, StepOf("parse", parseResult))
        text == GetProp(parseResult.data, "text")
        textValidation == validateTextLength(text, Num(MAX_TEXT_LENGTH), Lit("text", 4))
        s3 == Append(s2, StepOf("length", textValidation))
    IN  IF ~apiKeyResult.success THEN Returned(s1, apiKeyResult.error)
        ELSE IF ~parseResult.success THEN Returned(s2, parseResult.error)
        ELSE IF ~Destructurable(parseResult.data)
             THEN Returned(s2, CaughtResponse(TypeErrorMessage))
        ELSE IF ~textValidation.valid THEN Returned(s3, textValidation.error)
        ELSE Called(s3, ApiUrl(GEMINI_TTS_MODEL, apiKeyResult.apiKey),
                    AudioPayload(text), API_TIMEOUT_AUDIO)

\* JSON.parse(event.body) of the handlers without parseRequestBody: the
\* argument is converted to a string first, null to the text null
LegacyParse(b) == JSONParse(IF b.t = "null" THEN <<Tok("null")>> ELSE b.v)

\* generate-text.js and generate-audio.js: the key check, JSON.parse outside
\* any try, the emptiness check of the field
GenerateLegacy(apiKey, b, field, emptyMessage, model) ==
    LET keyError == ErrorResponse(500, Lit("API key is not set.", 10))
        s1 == <<Step("credential", ~Truthy(apiKey), IF Truthy(apiKey) THEN NoError ELSE keyError)>>
        p == LegacyParse(b)
        parseThrows == p.threw \/ ~Destructurable(p.val)
        s2 == Append(s1, Step("parse", parseThrows, NoError))
        value == GetProp(p.val, field)
        fieldError == ErrorResponse(400, emptyMessage)
        s3 == Append(s2, Step("field", ~Truthy(value), IF Truthy(value) THEN NoError ELSE fieldError))
    IN  IF ~Truthy(apiKey) THEN Returned(s1, keyError)
        ELSE IF p.threw THEN Threw(s2, "SyntaxError")
        ELSE IF ~Destructurable(p.val) THEN Threw(s2, "TypeError")
        ELSE IF ~Truthy(value) THEN Returned(s3, fieldError)
        ELSE Called(s3, ApiUrl(model, apiKey),
                    IF field = "prompt"
                    THEN TextPayload(value, GetProp(p.val, "systemInstruction"))
                    ELSE AudioPayload(value), 0)

\* exports.handler(event) of each handler, up to the upstream request
RunHandler(h, apiKey, b) ==
    CASE h = "generateTextV12" -> GenerateTextV12(apiKey, b)
      [] h = "generateAudioV12" -> GenerateAudioV12(apiKey, b)
      [] h = "generateText" ->
            GenerateLegacy(apiKey, b, "prompt",
                           Concat(Lit("Prompt", 6), Lit(" must not be empty.", 6)),
                           GEMINI_MODEL)
      [] h = "generateAudio" ->
            GenerateLegacy(apiKey, b, "text",
                           Concat(Lit("Text", 4), Lit(" must not be empty.", 6)),
                           GEMINI_TTS_MODEL)

(* ------------------------------------------------------------------ *)
(* The handlers: after the upstream request was issued                 *)
(* ------------------------------------------------------------------ *)
\* error.message of the errors node-fetch rejects with: fetch() on a network
\* failure, a body read on a failed connection, response.json() on a body
\* that is not JSON.  Each quotes the URL of the request.
FetchErrorMessage(url) ==
    Concat(Lit("request to ", 11), Concat(url, Lit(" failed, reason: ECONNRESET", 27)))
BodyErrorMessage(url) ==
    Concat(Lit("Invalid response body while trying to fetch ", 44),
      Concat(url, Lit(": ECONNRESET", 12)))
InvalidJsonMessage(url) ==
    Concat(Lit("invalid json response body at ", 30),
      Concat(url, Lit(" reason: Unexpected token", 25)))

MsgNoAudioData == Lit("Speech generation failed: the API returned no valid audio data.", 22)

\* apiResult.data?.candidates?.[0]?.content?.parts?.[0]?.inlineData
InlineData(data) ==
    OptProp(OptIndex(OptProp(OptProp(OptIndex(OptProp(data, "candidates"), 0),
                                     "content"), "parts"), 0), "inlineData")

\* Step 7 of the v1.2.0 audio handler
HasAudioData(data) ==
    Truthy(InlineData(data)) /\ Truthy(GetProp(InlineData(data), "data"))

\* What a v1.2.0 handler returns once callGoogleAPI has returned r
FinishV12(h, r) ==
    IF ~r.success THEN r.error
    ELSE IF h = "generateAudioV12" /\ ~HasAudioData(r.data)
    THEN ErrorResponse(500, MsgNoAudioData)
    ELSE createSuccessResponse(r.data)

\* The catch of generate-text.js and generate-audio.js
LegacyCaught(m) == ErrorResponse(500, m)
\* Their success return: status 200 whatever the upstream's status was
LegacySuccess(data) == [statusCode |-> 200, body |-> Str(JSONStringify(data))]

(* ------------------------------------------------------------------ *)
(* Inputs                                                             *)
(* ------------------------------------------------------------------ *)
\* How far around a length limit the field lengths are drawn
Slack == 1

\* process.env.GEMINI_API_KEY: unset, empty, or a key
EnvValues == {Undefined, EmptyStr, Lit("test-key", 8), Lit("test-api-key-123", 16)}

Lengths(max) == {0, 1} \cup {n \in (max - Slack)..(max + Slack) : n >= 0}

PromptValues ==
    {Undefined, Null, Num(5)} \cup {Rep(n) : n \in Lengths(MAX_PROMPT_LENGTH)}
SystemInstructionValues ==
    {Undefined, Null, Num(0), Num(7), Bool(FALSE), Bool(TRUE)} \cup
    {Rep(n) : n \in Lengths(MAX_PROMPT_LENGTH)}
TextValues ==
    {Undefined, Null, Num(5)} \cup {Rep(n) : n \in Lengths(MAX_TEXT_LENGTH)}

Field(k, x) == IF x.t = "undefined" THEN <<>> ELSE <<Member(k, x)>>
\* The JSON objects a client sends
ObjectPayloads ==
    {Obj(Field("prompt", p) \o Field("systemInstruction", s)) :
        p \in PromptValues, s \in SystemInstructionValues} \cup
    {Obj(Field("text", x)) : x \in TextValues} \cup
    {Obj(Field("text", Rep(MAX_TEXT_LENGTH + 1)) \o Field("prompt", Rep(1)))}
\* JSON values that are not objects
NonObjectPayloads ==
    {Null, Num(5), Bool(TRUE), Rep(3), Arr(<<>>), Arr(<<Num(1)>>)}
\* Texts that are not JSON: '{ invalid json', '{"prompt":', '{} {}'
InvalidTexts ==
    {<<Tok("{"), BadTok>>,
     <<Tok("{"), StrTok(<<Chunk("prompt", 6)>>), Tok(":")>>,
     <<Tok("{"), Tok("}"), Tok("{"), Tok("}")>>}
\* event.body: null, the empty string, a text that is not JSON, a JSON text
RequestBodies ==
    {Null, EmptyStr} \cup {Str(x) : x \in InvalidTexts} \cup
    {Str(JSONStringify(x)) : x \in ObjectPayloads \cup NonObjectPayloads}

\* The HTTP statuses the upstream answers with
UpstreamStatuses == {200, 400, 429, 500, 504}

AudioData(data) ==
    Obj(<<Member("candidates", Arr(<<Obj(<<Member("content",
        Obj(<<Member("parts", Arr(<<Obj(<<Member("inlineData",
            Obj(<<Member("mimeType", Lit("audio/L16", 9)), Member("data", data)>>))>>)>>))>>))>>)>>))>>)
TextData ==
    Obj(<<Member("candidates", Arr(<<Obj(<<Member("content",
        Obj(<<Member("parts", Parts(Rep(3)))>>))>>)>>))>>)
ErrorData ==
    Obj(<<Member("error", Obj(<<Member("code", Num(429)),
                                Member("message", Lit("Resource exhausted", 18))>>))>>)
\* The JSON values the upstream sends
UpstreamValues ==
    {AudioData(Rep(4)), AudioData(EmptyStr), TextData, ErrorData, Obj(<<>>), Null}
\* The body texts the upstream sends: JSON, nothing, or something else
UpstreamBodies ==
    {Str(JSONStringify(x)) : x \in UpstreamValues} \cup {EmptyStr, Str(<<BadTok>>)}

(* ------------------------------------------------------------------ *)
(* callGoogleAPI as a function of what the network does               *)
(* ------------------------------------------------------------------ *)
\* What the network does to one call of callGoogleAPI: the timer fires first,
\* fetch() rejects, the status arrives and the body is read, or the status
\* arrives and the body read fails
Outcome(kind, status, text) == [kind |-> kind, status |-> status, text |-> text]
Outcomes ==
    {Outcome("timeout", 0, EmptyStr), Outcome("reject", 0, EmptyStr)} \cup
    {Outcome("body", st, text) : st \in UpstreamStatuses, text \in UpstreamBodies} \cup
    {Outcome("bodyFails", st, EmptyStr) : st \in UpstreamStatuses}

\* callGoogleAPI(url, payload, timeout): the result it returns under outcome o
callGoogleAPI(url, payload, timeout, o) ==
    CASE o.kind = "timeout" -> ApiTimeout(timeout)
      [] o.kind = "reject" -> ApiNetworkError(FetchErrorMessage(url))
      [] o.kind = "body" ->
            IF ~ResponseOk(o.status) THEN ApiHttpError(o.status, o.text)
            ELSE LET p == JSONParse(o.text.v) IN
                 IF p.threw THEN ApiUnparsable(InvalidJsonMessage(url))
                 ELSE ApiSuccess(p.val)
      [] o.kind = "bodyFails" ->
            IF ResponseOk(o.status) THEN ApiUnparsable(BodyErrorMessage(url))
            ELSE ApiNetworkError(BodyErrorMessage(url))

\* How many invocations run concurrently
NumInvocations == 2
Invocations == 1..NumInvocations

\* One of several concurrent invocations: where it is, its request, the
\* AbortController and the timer its callGoogleAPI created (0: none), and
\* what the network and its own timer did to it
EmptyInv ==
    [pc |-> "idle", handler |-> "none", body |-> Null, request |-> NoRequest,
     controller |-> 0, timer |-> 0, upStatus |-> 0,
     seen |-> Outcome("none", 0, EmptyStr), response |-> NoResponse]
\* The process the invocations share: the invocations, the controllers that
\* were aborted, the armed timers with the controller each aborts, and the
\* next object identity
EmptyPool ==
    [inv |-> [i \in Invocations |-> EmptyInv], aborted |-> {}, timers |-> {}, nextId |-> 1]

(* ------------------------------------------------------------------ *)
(* The state machine of one invocation                                *)
(* ------------------------------------------------------------------ *)
Init ==
    /\ env \in EnvValues
    /\ handler = "none"
    /\ body = Null
    /\ pc = "idle"
    /\ steps = <<>>
    /\ request = NoRequest
    /\ timerArmed = FALSE
    /\ aborted = FALSE
    /\ requests = 0
    /\ upStatus = 0
    /\ upBody = EmptyStr
    /\ netLog = <<>>
    /\ apiResult = NoResult
    /\ response = NoResponse
    /\ thrown = "none"
    /\ call = <<>>
    /\ ret = [valid |-> TRUE]
    /\ pool = EmptyPool

Url == request.url

\* The handler returns resp after the upstream call ended as callStep
Complete(callStep, resp) ==
    /\ steps' = Append(steps, callStep)
    /\ response' = resp
    /\ pc' = "done"
    /\ timerArmed' = FALSE

\* callGoogleAPI returned r to a v1.2.0 handler
CompleteV12(r) ==
    /\ apiResult' = r
    /\ Complete(Step("call", ~r.success, IF r.success THEN NoError ELSE r.error),
                FinishV12(handler, r))

\* The try of generate-text.js / generate-audio.js ended
CompleteLegacy(failed, resp) ==
    /\ apiResult' = apiResult
    /\ Complete(Step("call", failed, IF failed THEN resp ELSE NoError), resp)

\* exports.handler(event): runs to its return, its throw or its first await;
\* callGoogleAPI arms the timer and issues the request
Invoke(h, b) ==
    /\ pc = "idle"
    /\ LET r == RunHandler(h, env, b) IN
        /\ handler' = h
        /\ body' = b
        /\ steps' = r.steps
        /\ request' = r.request
        /\ response' = r.response
        /\ thrown' = r.thrown
        /\ pc' = CASE r.kind = "return" -> "done"
                   [] r.kind = "throw" -> "threw"
                   [] r.kind = "call" -> "fetching"
        /\ requests' = IF r.kind = "call" THEN requests + 1 ELSE requests
        /\ netLog' = IF r.kind = "call" THEN Append(netLog, "request") ELSE netLog
        /\ timerArmed' = (r.kind = "call" /\ r.request.timeout > 0)
    /\ UNCHANGED <<pool, env, aborted, upStatus, upBody, apiResult, call, ret>>

\* fetch() resolves: the upstream's status line and headers arrived.
\* callGoogleAPI clears the timer and reads the body as text (not ok) or JSON
ResponseArrives(s) ==
    /\ pc = "fetching"
    /\ ~aborted
    /\ upStatus' = s
    /\ netLog' = Append(netLog, "response")
    /\ timerArmed' = FALSE
    /\ pc' = IF handler \in V12Handlers /\ ~ResponseOk(s) THEN "readingText" ELSE "readingJson"
    /\ UNCHANGED <<pool, env, handler, body, request, steps, aborted, requests, upBody, apiResult,
                   response, thrown, call, ret>>

\* fetch() rejects with a network error
FetchRejects ==
    /\ pc = "fetching"
    /\ ~aborted
    /\ netLog' = Append(netLog, "error")
    /\ IF handler \in V12Handlers
       THEN CompleteV12(ApiNetworkError(FetchErrorMessage(Url)))
       ELSE CompleteLegacy(TRUE, LegacyCaught(FetchErrorMessage(Url)))
    /\ UNCHANGED <<pool, env, handler, body, request, aborted, requests, upStatus, upBody, thrown, call, ret>>

\* The timer of callGoogleAPI fires: controller.abort() cancels the request,
\* fetch() rejects with an AbortError
TimerFires ==
    /\ timerArmed
    /\ pc = "fetching"
    /\ aborted' = TRUE
    /\ netLog' = Append(netLog, "abort")
    /\ CompleteV12(ApiTimeout(request.timeout))
    /\ UNCHANGED <<pool, env, handler, body, request, requests, upStatus, upBody, thrown, call, ret>>

\* response.json() resolves or rejects on the body text that arrived
JsonBodyRead(text) ==
    /\ pc = "readingJson"
    /\ upBody' = text
    /\ netLog' = Append(netLog, "body")
    /\ LET p == JSONParse(text.v) IN
       IF handler \in V12Handlers
       THEN CompleteV12(IF p.threw THEN ApiUnparsable(InvalidJsonMessage(Url))
                        ELSE ApiSuccess(p.val))
       ELSE CompleteLegacy(p.threw, IF p.threw THEN LegacyCaught(InvalidJsonMessage(Url))
                                    ELSE LegacySuccess(p.val))
    /\ UNCHANGED <<pool, env, handler, body, request, aborted, requests, upStatus, thrown, call, ret>>

\* response.text() resolves with the body of a response that is not ok
TextBodyRead(text) ==
    /\ pc = "readingText"
    /\ upBody' = text
    /\ netLog' = Append(netLog, "body")
    /\ CompleteV12(ApiHttpError(upStatus, text))
    /\ UNCHANGED <<pool, env, handler, body, request, aborted, requests, upStatus, thrown, call, ret>>

\* The connection fails while the body is read: response.json() rejects into
\* the inner catch, response.text() into the outer one
BodyReadFails ==
    /\ pc \in {"readingJson", "readingText"}
    /\ netLog' = Append(netLog, "error")
    /\ IF handler \in V12Handlers
       THEN CompleteV12(IF pc = "readingJson" THEN ApiUnparsable(BodyErrorMessage(Url))
                        ELSE ApiNetworkError(BodyErrorMessage(Url)))
       ELSE CompleteLegacy(TRUE, LegacyCaught(BodyErrorMessage(Url)))
    /\ UNCHANGED <<pool, env, handler, body, request, aborted, requests, upStatus, upBody, thrown, call, ret>>

Next ==
    \/ \E h \in Handlers, b \in RequestBodies : Invoke(h, b)
    \/ \E s \in UpstreamStatuses : ResponseArrives(s)
    \/ FetchRejects
    \/ TimerFires
    \/ \E text \in UpstreamBodies : JsonBodyRead(text)
    \/ \E text \in UpstreamBodies : TextBodyRead(text)
    \/ BodyReadFails

Spec == Init /\ [][Next]_vars

(* ------------------------------------------------------------------ *)
(* validateTextLength on its own                                      *)
(* ------------------------------------------------------------------ *)
\* The largest small limit and text length tried
UnitMaxLength == 3

UnitTexts ==
    {Undefined, Null, Bool(FALSE), Bool(TRUE), Num(0), Num(12345), Arr(<<>>), Obj(<<>>)} \cup
    {Rep(n) : n \in 0..(UnitMaxLength + 1)} \cup
    {Rep(100), Rep(101), Rep(150), Rep(DEFAULT_MAX_LENGTH), Rep(DEFAULT_MAX_LENGTH + 1)}
UnitMaxLengths ==
    {Undefined, Num(100), Num(DEFAULT_MAX_LENGTH)} \cup {Num(m) : m \in 0..UnitMaxLength}
UnitFieldNames == {Undefined, Lit("text", 4), Lit("prompt", 6), Lit("customField", 11)}

\* A test calls validateTextLength(text, maxLength, fieldName); an argument
\* left out is undefined
CallValidateTextLength(text, maxLength, fieldName) ==
    /\ call = <<>>
    /\ call' = <<text, maxLength, fieldName>>
    /\ ret' = validateTextLength(text, maxLength, fieldName)
    /\ UNCHANGED <<pool, env, handler, body, request, pc, steps, timerArmed, aborted, requests,
                   upStatus, upBody, netLog, apiResult, response, thrown>>

NextValidate ==
    \E text \in UnitTexts, maxLength \in UnitMaxLengths, fieldName \in UnitFieldNames :
        CallValidateTextLength(text, maxLength, fieldName)

SpecValidate == Init /\ [][NextValidate]_vars

(* ------------------------------------------------------------------ *)
(* Reading a state                                                    *)
(* ------------------------------------------------------------------ *)
Invoked == pc # "idle"
Ended == pc \in {"done", "threw"}
CredentialSet == Truthy(env)

\* JSON.parse(response.body).error.message of a response
ParsedBody(resp) == JSONParse(resp.body.v)
MessageOf(resp) == OptProp(OptProp(ParsedBody(resp).val, "error"), "message")
\* A body of the form { error: { message: <string> } }
HasErrorMessage(resp) == ~ParsedBody(resp).threw /\ MessageOf(resp).t = "string"
\* The text c is a piece of the string m
Mentions(m, c) ==
    m.t = "string" /\ \E i \in 1..Len(m.v) : "c" \in DOMAIN m.v[i] /\ m.v[i].c = c

\* The payload of the request, when event.body is a JSON text
Payload == JSONParse(body.v).val
IsJsonText(b) == b.t = "string" /\ b \notin ({EmptyStr} \cup {Str(x) : x \in InvalidTexts})
RequiredField == IF handler \in TextHandlers THEN "prompt" ELSE "text"
RequiredLimit == IF handler \in TextHandlers THEN 5000 ELSE 3000
\* x is a string of 1..limit code units
StringWithin(x, limit) == x.t = "string" /\ StrLen(x) >= 1 /\ StrLen(x) <= limit

(* ------------------------------------------------------------------ *)
(* C1                                                                 *)
(* ------------------------------------------------------------------ *)
\* C1: every invocation of a text or audio handler, whatever the request body
\* and the upstream outcome, ends by returning a response with an integer
\* statusCode and a JSON body; none ends by throwing.
C1_AlwaysResponds ==
    /\ pc # "threw"
    /\ pc = "done" => response.statusCode \in Int /\ ~ParsedBody(response).threw

\* The same statement for the v1.2.0 handlers alone, whose whole body is
\* inside a try
C1_V12AlwaysResponds ==
    handler \in V12Handlers => C1_AlwaysResponds

(* ------------------------------------------------------------------ *)
(* C2                                                                 *)
(* ------------------------------------------------------------------ *)
StepRank(kind) ==
    CASE kind = "credential" -> 1
      [] kind = "parse" -> 2
      [] kind \in {"length", "field"} -> 3
      [] kind = "call" -> 4
\* The steps ran in the order credential, parse, field check(s), call, each
\* after all of the earlier kinds
StepsInOrder ==
    /\ \A i \in 1..Len(steps) : \A j \in 1..Len(steps) :
          i < j => StepRank(steps[i].kind) <= StepRank(steps[j].kind)
    /\ \A i \in 1..Len(steps) :
          StepRank(steps[i].kind) <= 2 => StepRank(steps[i].kind) = i
    /\ \A i \in 1..Len(steps) : steps[i].kind = "call" => i >= 4
\* C2: in each handler the steps run in the order credential check, body
\* parse, field length check(s), upstream call; when a step fails the response
\* is exactly the ErrorResponse that step produced and no later step runs.
C2_FirstFailureIsTheResponse ==
    /\ StepsInOrder
    /\ (requests > 0) => Len(steps) >= 3 /\ \A i \in 1..Len(steps) :
                            steps[i].kind # "call" => ~steps[i].failed
    /\ \A i \in 1..Len(steps) :
          steps[i].failed =>
            /\ i = Len(steps)
            /\ pc = "done"
            /\ response = steps[i].error
            /\ steps[i].kind # "call" => requests = 0

C2_V12FirstFailureIsTheResponse ==
    handler \in V12Handlers => C2_FirstFailureIsTheResponse

(* ------------------------------------------------------------------ *)
(* C3                                                                 *)
(* ------------------------------------------------------------------ *)
\* C3: with the credential absent or empty, every handler returns status 500
\* with a body { error: { message } } for every request body (so the text and
\* the audio handler agree on the status), and no upstream call is made.
C3_MissingCredentialIs500 ==
    (Invoked /\ ~CredentialSet) =>
        /\ pc = "done"
        /\ response.statusCode = 500
        /\ HasErrorMessage(response)
        /\ requests = 0
        /\ netLog = <<>>

\* The audio handler was invoked with a valid text and an empty credential
C3_Witness ==
    /\ pc = "done"
    /\ env = EmptyStr
    /\ handler = "generateAudioV12"
    /\ body = Str(JSONStringify(Obj(<<Member("text", Rep(1))>>)))
    /\ response.statusCode = 500

(* ------------------------------------------------------------------ *)
(* C4                                                                 *)
(* ------------------------------------------------------------------ *)
\* C4: with the credential set and a request body that is null, empty or not
\* valid JSON, the handler returns status 400 with a body { error: { message } }
\* (the empty-body message for null and empty, the parse-failure message for
\* invalid JSON) and makes no upstream call.
C4_BadBodyIs400 ==
    (Invoked /\ CredentialSet /\ ~IsJsonText(body)) =>
        /\ pc = "done"
        /\ response.statusCode = 400
        /\ HasErrorMessage(response)
        /\ IF body \in {Null, EmptyStr}
           THEN Mentions(MessageOf(response), "Request body must not be empty.")
           ELSE Mentions(MessageOf(response), "JSON parse failed: ")
        /\ requests = 0

C4_V12BadBodyIs400 ==
    handler \in V12Handlers => C4_BadBodyIs400

(* ------------------------------------------------------------------ *)
(* C5                                                                 *)
(* ------------------------------------------------------------------ *)
\* C5: with the credential set and a body that parses as JSON, a required
\* field (prompt for text, text for audio) that is missing, empty or not a
\* string gives status 400 with a message naming the field, for every parsed
\* value, an object or not (null, a number, a boolean, a string, an array).
C5_BadFieldIs400 ==
    (Invoked /\ CredentialSet /\ IsJsonText(body)
       /\ ~(OptProp(Payload, RequiredField).t = "string"
            /\ StrLen(OptProp(Payload, RequiredField)) >= 1)) =>
        /\ pc = "done"
        /\ response.statusCode = 400
        /\ Mentions(MessageOf(response), RequiredField)
        /\ requests = 0

\* C5 on the v1.2.0 handlers, which validate the field with validateTextLength
C5_V12BadFieldIs400 ==
    handler \in V12Handlers => C5_BadFieldIs400

\* The same statement for objects, arrays and primitives other than null, on
\* the v1.2.0 handlers
C5_V12BadFieldIs400ExceptNull ==
    (handler \in V12Handlers /\ IsJsonText(body) /\ Payload # Null) => C5_BadFieldIs400

(* ------------------------------------------------------------------ *)
(* C6                                                                 *)
(* ------------------------------------------------------------------ *)
SystemInstructionOk ==
    \/ GetProp(Payload, "systemInstruction").t = "undefined"
    \/ /\ GetProp(Payload, "systemInstruction").t = "string"
       /\ StrLen(GetProp(Payload, "systemInstruction")) <= 5000
FieldsOk ==
    /\ StringWithin(GetProp(Payload, RequiredField), RequiredLimit)
    /\ handler \in TextHandlers => SystemInstructionOk
\* C6: with the credential set and a JSON object body, the text handler issues
\* the upstream call iff prompt is a string of length 1..5000 and
\* systemInstruction is absent or a string of length at most 5000, the audio
\* handler iff text is a string of length 1..3000; otherwise the answer is 400.
C6_CallIffFieldsValid ==
    (Invoked /\ CredentialSet /\ IsJsonText(body) /\ Payload.t = "object") =>
        /\ (requests >= 1) <=> FieldsOk
        /\ ~FieldsOk => pc = "done" /\ response.statusCode = 400

\* C6 on the v1.2.0 handlers, which check the lengths
C6_V12CallIffFieldsValid ==
    handler \in V12Handlers => C6_CallIffFieldsValid

\* The same statement for the requests whose systemInstruction is absent, a
\* string, or a value that is truthy
C6_V12CallIffFieldsValidTruthy ==
    (handler \in V12Handlers /\ IsJsonText(body)
       /\ (GetProp(Payload, "systemInstruction").t \in {"undefined", "string"}
            \/ Truthy(GetProp(Payload, "systemInstruction")))) => C6_CallIffFieldsValid

(* ------------------------------------------------------------------ *)
(* C7 (under SpecValidate)                                            *)
(* ------------------------------------------------------------------ *)
CalledText == call[1]
\* The limit and the field name in force: the defaults when left out
CalledMax == IF call[2].t = "undefined" THEN 5000 ELSE call[2].v
CalledName == IF call[3].t = "undefined" THEN "text" ELSE call[3].v[1].c
RetMessage == MessageOf(ret.error)
C7_SucceedsIffWithin ==
    ret.valid <=> StringWithin(CalledText, CalledMax)
C7_FailureNamesField ==
    ~ret.valid => ret.error.statusCode = 400 /\ Mentions(RetMessage, CalledName)
C7_CarriesNumbers ==
    Mentions(RetMessage, ToString(CalledMax)) /\
    Mentions(RetMessage, ToString(StrLen(CalledText)))

\* C7 as stated: validateTextLength succeeds iff the value is a string of
\* length 1 <= L <= maxLength; every failure has status 400 and names the
\* field; a failure caused by length (a string with L < 1 or L > maxLength)
\* also carries maxLength and L; maxLength defaults to 5000, fieldName to "text".
C7_Original ==
    call # <<>> =>
        /\ C7_SucceedsIffWithin
        /\ C7_FailureNamesField
        /\ (CalledText.t = "string" /\ ~ret.valid) => C7_CarriesNumbers

\* C7 amended: as above, but it is the failure of a string longer than
\* maxLength that carries maxLength and L; the failure of the empty string
\* names the field and does not carry maxLength.
C7_Amended ==
    call # <<>> =>
        /\ C7_SucceedsIffWithin
        /\ C7_FailureNamesField
        /\ (CalledText.t = "string" /\ StrLen(CalledText) > CalledMax) => C7_CarriesNumbers
        /\ (CalledText.t = "string" /\ StrLen(CalledText) = 0) =>
              ~Mentions(RetMessage, ToString(CalledMax))

\* Both defaults in force, one code unit over the default limit
C7_Witness ==
    /\ call = <<Rep(5001), Undefined, Undefined>>
    /\ ~ret.valid
    /\ Mentions(RetMessage, "5000") /\ Mentions(RetMessage, "5001")
    /\ Mentions(RetMessage, "text")

(* ------------------------------------------------------------------ *)
(* C8                                                                 *)
(* ------------------------------------------------------------------ *)
\* The credential is set and the fields are valid: a prompt of 1..5000 with
\* no systemInstruction (text), a text of 1..3000 (audio)
ValidRequest ==
    /\ Invoked /\ CredentialSet /\ IsJsonText(body) /\ Payload.t = "object"
    /\ StringWithin(GetProp(Payload, RequiredField), RequiredLimit)
    /\ handler \in TextHandlers => GetProp(Payload, "systemInstruction").t = "undefined"
UpstreamRefused == upStatus # 0 /\ (upStatus < 200 \/ upStatus >= 300)

C9_UpstreamStatusPassedThrough ==
    (pc = "done" /\ UpstreamRefused) =>
        /\ handler \in V12Handlers =>
              ~apiResult.success /\ apiResult.error.statusCode = upStatus
        /\ response.statusCode = upStatus
        /\ response.statusCode # 200

(* ------------------------------------------------------------------ *)
(* C10                                                                *)
(* ------------------------------------------------------------------ *)
TimedOut == ~apiResult.success /\ apiResult.error.statusCode = 504
\* Nothing follows the cancellation in the call's network log
AbortIsLast == \A i \in 1..Len(netLog) : netLog[i] = "abort" => i = Len(netLog)
\* The timer fired before the call had a result: the request is cancelled,
\* the call fails with 504, no network event of the call follows
C10_TimerFiredIs504 ==
    aborted => TimedOut /\ AbortIsLast /\ requests = 1 /\ pc = "done"

\* C10 as stated: the above, and conversely a 504 result is produced only
\* when the timer fired.
C10_Original ==
    /\ C10_TimerFiredIs504
    /\ TimedOut => aborted

\* C10 amended: the above, and a 504 result is produced only when the timer
\* fired or the upstream itself answered with status 504.
C10_Amended ==
    /\ C10_TimerFiredIs504
    /\ TimedOut => (aborted \/ upStatus = 504)

\* The timer fired while the request was in flight
C10_Witness ==
    /\ aborted
    /\ pc = "done"
    /\ netLog = <<"request", "abort">>
    /\ response.statusCode = 504

(* ------------------------------------------------------------------ *)
(* C11                                                                *)
(* ------------------------------------------------------------------ *)
\* An invocation given only that timers fire: an armed timer that stays
\* armed goes off; the upstream owes nothing
SpecTimers == Init /\ [][Next]_vars /\ WF_vars(TimerFires)

\* callGoogleAPI was called and has not returned
InCall == handler \in V12Handlers /\ pc \in {"fetching", "readingJson", "readingText"}
\* The upstream sent its status and the body is being read
ReadingBody == handler \in V12Handlers /\ pc \in {"readingJson", "readingText"}

\* C11: every call of callGoogleAPI, and so every handler invocation,
\* eventually returns a result given only that timers eventually fire, even
\* when the upstream never answers or stalls while the body is being read.
C11_CallEventuallyReturns == InCall ~> (pc = "done")

\* The part of C11 that the timer does bound: a fetch that is pending ends
C11_PendingFetchEnds ==
    (handler \in V12Handlers /\ pc = "fetching") ~> (pc # "fetching")

\* Once the status has arrived no timer is armed any more
C11_NoTimerWhileReading == ReadingBody => ~timerArmed

(* ------------------------------------------------------------------ *)
(* C12                                                                *)
(* ------------------------------------------------------------------ *)
\* A step before the upstream call failed
ValidationFailed == \E i \in 1..Len(steps) : steps[i].kind # "call" /\ steps[i].failed
\* The requests that went out on the network
RequestsSent == Cardinality({i \in 1..Len(netLog) : netLog[i] = "request"})
\* The upstream call ended in a failure
UpstreamFailed == \E i \in 1..Len(steps) : steps[i].kind = "call" /\ steps[i].failed

\* At most one request in an invocation, none after an upstream failure
C12_AtMostOneRequest ==
    /\ requests <= 1
    /\ RequestsSent = requests
    /\ UpstreamFailed => (requests = 1 /\ pc = "done")

\* C12: in any handler invocation the number of outbound requests is at most
\* one: zero when any validation step failed and exactly one otherwise, and
\* after any upstream failure no second request is issued.
C12_OneRequestUnlessValidationFailed ==
    Invoked =>
        /\ C12_AtMostOneRequest
        /\ ValidationFailed => requests = 0
        /\ ~ValidationFailed => requests = 1

\* The same statement for every request body but the JSON text null
C12_OneRequestExceptNullBody ==
    ~(IsJsonText(body) /\ Payload = Null) => C12_OneRequestUnlessValidationFailed

(* ------------------------------------------------------------------ *)
(* C13                                                                *)
(* ------------------------------------------------------------------ *)
\* The handler answered 200
Succeeded == pc = "done" /\ response.statusCode = 200
\* The response carries the two fixed headers and no other
HasFixedHeaders(resp) ==
    /\ "headers" \in DOMAIN resp
    /\ DOMAIN resp.headers = {"Content-Type", "Cache-Control"}
    /\ resp.headers["Content-Type"] = "application/json"
    /\ resp.headers["Cache-Control"] = "no-cache, no-store, must-revalidate"
\* The JSON value the upstream returned
UpstreamValue == JSONParse(upBody.v)
\* Parsing the response body gives the upstream's value
BodyIsUpstreamValue ==
    /\ ~UpstreamValue.threw
    /\ ~ParsedBody(response).threw
    /\ ParsedBody(response).val = UpstreamValue.val

\* C13: whenever a handler returns status 200 its response carries the fixed
\* headers Content-Type and Cache-Control, and parsing its body yields the
\* JSON value the upstream returned, nothing added, removed or changed.
C13_SuccessIsUpstreamValueWithHeaders ==
    Succeeded => HasFixedHeaders(response) /\ BodyIsUpstreamValue

\* The same statement for the v1.2.0 handlers, which answer through
\* createSuccessResponse
C13_V12SuccessIsUpstreamValueWithHeaders ==
    handler \in V12Handlers => C13_SuccessIsUpstreamValueWithHeaders

\* The body half alone, on every handler
C13_SuccessBodyIsUpstreamValue == Succeeded => BodyIsUpstreamValue

(* ------------------------------------------------------------------ *)
(* C14                                                                *)
(* ------------------------------------------------------------------ *)
AudioHandlers == Handlers \ TextHandlers
\* The upstream's value has non-empty inline audio data at
\* candidates[0].content.parts[0].inlineData.data
UpstreamHasAudio == ~UpstreamValue.threw /\ HasAudioData(UpstreamValue.val)
\* The upstream call succeeded: a 2xx answer whose body is JSON
UpstreamSucceeded == upStatus # 0 /\ ResponseOk(upStatus) /\ IsJsonText(upBody) /\
                     ~UpstreamValue.threw

\* C14: the audio handler returns 200 only if the upstream's JSON value has
\* non-empty inline audio data; when the call succeeded and the data is
\* absent or empty it returns 500 with the missing-audio-data error, not the
\* upstream's value.
C14_AudioSuccessHasAudioData ==
    (handler \in AudioHandlers /\ pc = "done") =>
        /\ response.statusCode = 200 => UpstreamHasAudio
        /\ (UpstreamSucceeded /\ netLog[Len(netLog)] = "body" /\ ~UpstreamHasAudio) =>
              /\ response.statusCode = 500
              /\ Mentions(MessageOf(response),
                    "Speech generation failed: the API returned no valid audio data.")

\* The same statement for the v1.2.0 audio handler, which checks the data
C14_V12AudioSuccessHasAudioData ==
    handler = "generateAudioV12" => C14_AudioSuccessHasAudioData

(* ------------------------------------------------------------------ *)
(* The four utilities called on their own                             *)
(* ------------------------------------------------------------------ *)
\* The function a call record names
Fn(name) == [fn |-> name]

CallValidateApiKey ==
    /\ call = <<>>
    /\ call' = <<Fn("validateApiKey")>>
    /\ ret' = validateApiKey(env)
    /\ UNCHANGED <<pool, env, handler, body, request, pc, steps, timerArmed, aborted, requests,
                   upStatus, upBody, netLog, apiResult, response, thrown>>

CallParseRequestBody(b) ==
    /\ call = <<>>
    /\ call' = <<Fn("parseRequestBody"), b>>
    /\ ret' = parseRequestBody(b)
    /\ UNCHANGED <<pool, env, handler, body, request, pc, steps, timerArmed, aborted, requests,
                   upStatus, upBody, netLog, apiResult, response, thrown>>

CallCallGoogleAPI(timeout, o) ==
    /\ call = <<>>
    /\ Truthy(env)
    /\ call' = <<Fn("callGoogleAPI"), o>>
    /\ ret' = callGoogleAPI(ApiUrl(GEMINI_MODEL, env), TextPayload(Rep(1), Undefined),
                            timeout, o)
    /\ UNCHANGED <<pool, env, handler, body, request, pc, steps, timerArmed, aborted, requests,
                   upStatus, upBody, netLog, apiResult, response, thrown>>

NextUtils ==
    \/ CallValidateApiKey
    \/ \E b \in RequestBodies : CallParseRequestBody(b)
    \/ \E text \in UnitTexts, maxLength \in UnitMaxLengths, fieldName \in UnitFieldNames :
          CallValidateTextLength(text, maxLength, fieldName)
    \/ \E timeout \in {API_TIMEOUT_TEXT, API_TIMEOUT_AUDIO}, o \in Outcomes :
          CallCallGoogleAPI(timeout, o)

SpecUtils == Init /\ [][NextUtils]_vars

(* ------------------------------------------------------------------ *)
(* C15 (under SpecUtils)                                              *)
(* ------------------------------------------------------------------ *)
CalledFn == IF "fn" \in DOMAIN call[1] THEN call[1].fn ELSE "validateTextLength"
\* The field that tags the result, and the tag
TagField == IF CalledFn = "validateTextLength" THEN "valid" ELSE "success"
RetOk == ret[TagField]
\* The value the call validated: the credential, the parsed payload, the
\* checked text, the upstream's data
ValidatedValue ==
    CASE CalledFn = "validateApiKey" -> env
      [] CalledFn = "parseRequestBody" -> JSONParse(call[2].v).val
      [] CalledFn = "validateTextLength" -> call[1]
      [] CalledFn = "callGoogleAPI" -> JSONParse(call[2].text.v).val
\* A success: the tag, the validated value, nothing else
SuccessSide ==
    /\ TagField \in DOMAIN ret /\ "error" \notin DOMAIN ret
    /\ Cardinality(DOMAIN ret) = 2
    /\ \E f \in DOMAIN ret \ {TagField} : ret[f] = ValidatedValue
\* A failure: the tag, an ErrorResponse, nothing else
FailureSide ==
    /\ DOMAIN ret = {TagField, "error"}
    /\ DOMAIN ret.error = {"statusCode", "body"}
    /\ ret.error.statusCode \in 400..599
    /\ HasErrorMessage(ret.error)

\* C15 as stated: every result of validateApiKey, parseRequestBody,
\* validateTextLength and callGoogleAPI has exactly one side: a success
\* carries the validated value and no error, a failure an ErrorResponse and
\* no value.
C15_Original ==
    call # <<>> => IF RetOk THEN SuccessSide ELSE FailureSide

\* C15 amended: as stated for validateApiKey, parseRequestBody and
\* callGoogleAPI; a success of validateTextLength is the tag valid: true
\* alone, carrying neither the checked text nor an error.
C15_Amended ==
    call # <<>> =>
        IF ~RetOk THEN FailureSide
        ELSE IF CalledFn = "validateTextLength" THEN ret = [valid |-> TRUE]
        ELSE SuccessSide

\* validateTextLength accepted a text of one character
C15_Witness ==
    /\ call = <<Rep(1), Num(UnitMaxLength), Lit("prompt", 6)>>
    /\ ret = [valid |-> TRUE]

(* ------------------------------------------------------------------ *)
(* Concurrent invocations in one process                              *)
(* ------------------------------------------------------------------ *)
\* One controller that every call shares, in place of a new one per call
SharedController(p) == 1

\* const controller = new AbortController(): a new object at every call
NewController(p) == p.nextId
\* const timeoutId = setTimeout(...): a new timer at every call
NewTimer(p) == p.nextId + 1

\* The requests and the upstream answers of the concurrent invocations
ConcurrentBodies ==
    {Str(JSONStringify(Obj(<<Member("prompt", Rep(1))>>))),
     Str(JSONStringify(Obj(<<Member("text", Rep(1))>>)))}
ConcurrentStatuses == {200, 429}
ConcurrentUpstreamBodies == {Str(JSONStringify(AudioData(Rep(4)))), Str(<<BadTok>>)}

\* What the handler of invocation v returns once its upstream call ended
\* with result r (v1.2.0) or response resp (the handlers without utils)
Finished(v, o, resp) == [v EXCEPT !.pc = "done", !.seen = o, !.response = resp]
FinishedV12(v, o, r) == Finished(v, o, FinishV12(v.handler, r))

\* exports.handler(event) of invocation i up to its first await; callGoogleAPI
\* creates its controller, arms its timer and issues the request.  A fetch
\* on a signal that is already aborted rejects at once.
ConcurrentInvoke(i, h, b) ==
    /\ pool.inv[i].pc = "idle"
    /\ \E r \in {RunHandler(h, env, b)} :
       \E viaUtils \in {r.kind = "call" /\ h \in V12Handlers} :
       \E c \in {IF viaUtils THEN NewController(pool) ELSE 0} :
       \E t \in {IF viaUtils THEN NewTimer(pool) ELSE 0} :
       \E v \in {[EmptyInv EXCEPT !.handler = h, !.body = b, !.request = r.request,
                                   !.controller = c, !.timer = t,
                                   !.response = r.response,
                                   !.pc = CASE r.kind = "return" -> "done"
                                            [] r.kind = "throw" -> "threw"
                                            [] r.kind = "call" -> "fetching"]} :
       \E dead \in {viaUtils /\ c \in pool.aborted} :
         pool' = [inv |-> [pool.inv EXCEPT ![i] =
                             IF dead
                             THEN FinishedV12(v, v.seen, ApiTimeout(r.request.timeout))
                             ELSE v],
                  aborted |-> pool.aborted,
                  timers |-> IF viaUtils /\ ~dead
                             THEN pool.timers \cup {[id |-> t, controller |-> c]}
                             ELSE pool.timers,
                  nextId |-> IF viaUtils THEN pool.nextId + 2 ELSE pool.nextId]
    /\ UNCHANGED <<env, handler, body, pc, steps, request, timerArmed, aborted, requests,
                   upStatus, upBody, netLog, apiResult, response, thrown, call, ret>>

\* clearTimeout(timeoutId) of invocation v
ClearTimeout(v) == {t \in pool.timers : t.id # v.timer}

\* fetch() of invocation i resolves with status st; its timer is cleared
ConcurrentResponseArrives(i, st) ==
    /\ pool.inv[i].pc = "fetching"
    /\ LET v == pool.inv[i] IN
       pool' = [pool EXCEPT
                  !.inv[i] = [v EXCEPT !.upStatus = st,
                                       !.pc = IF v.handler \in V12Handlers /\ ~ResponseOk(st)
                                              THEN "readingText" ELSE "readingJson"],
                  !.timers = ClearTimeout(v)]
    /\ UNCHANGED <<env, handler, body, pc, steps, request, timerArmed, aborted, requests,
                   upStatus, upBody, netLog, apiResult, response, thrown, call, ret>>

\* fetch() of invocation i rejects with a network error
ConcurrentFetchRejects(i) ==
    /\ pool.inv[i].pc = "fetching"
    /\ LET v == pool.inv[i]
           o == Outcome("reject", 0, EmptyStr) IN
       pool' = [pool EXCEPT
                  !.inv[i] = IF v.handler \in V12Handlers
                             THEN FinishedV12(v, o, ApiNetworkError(FetchErrorMessage(v.request.url)))
                             ELSE Finished(v, o, LegacyCaught(FetchErrorMessage(v.request.url))),
                  !.timers = ClearTimeout(v)]
    /\ UNCHANGED <<env, handler, body, pc, steps, request, timerArmed, aborted, requests,
                   upStatus, upBody, netLog, apiResult, response, thrown, call, ret>>

\* The timer that invocation i armed fires: its callback aborts the controller
\* it closed over, and every fetch pending on that controller's signal
\* rejects with an AbortError
ConcurrentTimerFires(i) ==
    /\ \E t \in pool.timers :
         /\ t.id = pool.inv[i].timer
         /\ pool' = [pool EXCEPT
                       !.aborted = pool.aborted \cup {t.controller},
                       !.timers = pool.timers \ {t},
                       !.inv = [j \in Invocations |->
                                  LET v == pool.inv[j] IN
                                  IF v.pc = "fetching" /\ v.handler \in V12Handlers
                                     /\ v.controller = t.controller
                                  THEN FinishedV12(v, IF v.timer = t.id
                                                     THEN Outcome("timeout", 0, EmptyStr)
                                                     ELSE v.seen,
                                                  ApiTimeout(v.request.timeout))
                                  ELSE v]]
    /\ UNCHANGED <<env, handler, body, pc, steps, request, timerArmed, aborted, requests,
                   upStatus, upBody, netLog, apiResult, response, thrown, call, ret>>

\* response.json() of invocation i resolves or rejects on the text that arrived
ConcurrentJsonBodyRead(i, text) ==
    /\ pool.inv[i].pc = "readingJson"
    /\ LET v == pool.inv[i]
           o == Outcome("body", v.upStatus, text)
           p == JSONParse(text.v) IN
       pool' = [pool EXCEPT !.inv[i] =
                  IF v.handler \in V12Handlers
                  THEN FinishedV12(v, o, IF p.threw
                                         THEN ApiUnparsable(InvalidJsonMessage(v.request.url))
                                         ELSE ApiSuccess(p.val))
                  ELSE Finished(v, o, IF p.threw
                                      THEN LegacyCaught(InvalidJsonMessage(v.request.url))
                                      ELSE LegacySuccess(p.val))]
    /\ UNCHANGED <<env, handler, body, pc, steps, request, timerArmed, aborted, requests,
                   upStatus, upBody, netLog, apiResult, response, thrown, call, ret>>

\* response.text() of invocation i resolves with the body of a not-ok response
ConcurrentTextBodyRead(i, text) ==
    /\ pool.inv[i].pc = "readingText"
    /\ LET v == pool.inv[i] IN
       pool' = [pool EXCEPT !.inv[i] =
                  FinishedV12(v, Outcome("body", v.upStatus, text),
                              ApiHttpError(v.upStatus, text))]
    /\ UNCHANGED <<env, handler, body, pc, steps, request, timerArmed, aborted, requests,
                   upStatus, upBody, netLog, apiResult, response, thrown, call, ret>>

\* The connection of invocation i fails while its body is read
ConcurrentBodyReadFails(i) ==
    /\ pool.inv[i].pc \in {"readingJson", "readingText"}
    /\ LET v == pool.inv[i]
           o == Outcome("bodyFails", v.upStatus, EmptyStr)
           m == BodyErrorMessage(v.request.url) IN
       pool' = [pool EXCEPT !.inv[i] =
                  IF v.handler \in V12Handlers
                  THEN FinishedV12(v, o, IF v.pc = "readingJson" THEN ApiUnparsable(m)
                                         ELSE ApiNetworkError(m))
                  ELSE Finished(v, o, LegacyCaught(m))]
    /\ UNCHANGED <<env, handler, body, pc, steps, request, timerArmed, aborted, requests,
                   upStatus, upBody, netLog, apiResult, response, thrown, call, ret>>

NextConcurrent ==
    \/ \E i \in Invocations, h \in Handlers, b \in ConcurrentBodies : ConcurrentInvoke(i, h, b)
    \/ \E i \in Invocations, st \in ConcurrentStatuses : ConcurrentResponseArrives(i, st)
    \/ \E i \in Invocations : ConcurrentFetchRejects(i)
    \/ \E i \in Invocations : ConcurrentTimerFires(i)
    \/ \E i \in Invocations, text \in ConcurrentUpstreamBodies : ConcurrentJsonBodyRead(i, text)
    \/ \E i \in Invocations, text \in ConcurrentUpstreamBodies : ConcurrentTextBodyRead(i, text)
    \/ \E i \in Invocations : ConcurrentBodyReadFails(i)

\* The process starts with its credential unset or set; no invocation has begun
InitConcurrent == Init /\ env \in {EmptyStr, Lit("test-key", 8)}

SpecConcurrent == InitConcurrent /\ [][NextConcurrent]_vars

(* ------------------------------------------------------------------ *)
(* C16 (under SpecConcurrent)                                         *)
(* ------------------------------------------------------------------ *)
\* The response handler h returns when it runs alone with credential key,
\* request body b and upstream outcome o
AloneResponse(h, key, b, o) ==
    CHOOSE resp \in
      {IF r.kind # "call" THEN r.response
       ELSE IF o.kind = "none" THEN NoResponse
       ELSE IF h \in V12Handlers
       THEN FinishV12(h, callGoogleAPI(r.request.url, r.request.payload,
                                       r.request.timeout, o))
       ELSE CASE o.kind = "reject" -> LegacyCaught(FetchErrorMessage(r.request.url))
              [] o.kind = "bodyFails" -> LegacyCaught(BodyErrorMessage(r.request.url))
              [] o.kind = "body" ->
                    IF JSONParse(o.text.v).threw
                    THEN LegacyCaught(InvalidJsonMessage(r.request.url))
                    ELSE LegacySuccess(JSONParse(o.text.v).val)
              [] OTHER -> NoResponse
       : r \in {RunHandler(h, key, b)}} : TRUE

\* The outcome the single invocation of Spec saw, read off its network log
ObservedOutcome ==
    CASE netLog[Len(netLog)] = "abort" -> Outcome("timeout", 0, EmptyStr)
      [] netLog[Len(netLog)] = "body" -> Outcome("body", upStatus, upBody)
      [] netLog[Len(netLog)] = "error" /\ Len(netLog) = 2 -> Outcome("reject", 0, EmptyStr)
      [] netLog[Len(netLog)] = "error" /\ Len(netLog) = 3 ->
            Outcome("bodyFails", upStatus, EmptyStr)
\* AloneResponse is what the invocation of Spec returns (checked under Spec)
AloneIsTheSingleInvocation ==
    pc = "done" =>
        response = AloneResponse(handler, env, body,
                                 IF netLog = <<>> THEN Outcome("none", 0, EmptyStr)
                                 ELSE ObservedOutcome)

\* Invocation i ended
EndedAt(i) == pool.inv[i].pc \in {"done", "threw"}
\* The signal of invocation i was aborted only by the timer i armed itself
OnlyOwnTimerAborts(i) ==
    (pool.inv[i].controller # 0 /\ pool.inv[i].controller \in pool.aborted) =>
        pool.inv[i].seen.kind = "timeout"

\* C16: for any interleaving of concurrent handler invocations, each
\* invocation's response equals the response it would return if run alone
\* with the same request, credential and upstream outcome; the timer and the
\* cancellation of one invocation never abort or alter the call of another.
C16_ResponseAsIfAlone ==
    \A i \in Invocations :
        /\ EndedAt(i) =>
              pool.inv[i].response =
                AloneResponse(pool.inv[i].handler, env, pool.inv[i].body, pool.inv[i].seen)
        /\ OnlyOwnTimerAborts(i)
        /\ pool.inv[i].pc = "fetching" => pool.inv[i].controller \notin pool.aborted

\* The timer of one invocation fired and aborted its call while another
\* call of the same handler, started earlier, is still in flight
C16_Witness ==
    \E i \in Invocations, j \in Invocations :
        /\ i # j
        /\ pool.inv[i].pc = "done" /\ pool.inv[i].seen.kind = "timeout"
        /\ pool.inv[i].response.statusCode = 504
        /\ pool.inv[j].pc = "fetching" /\ pool.inv[j].handler = pool.inv[i].handler
        /\ pool.inv[j].controller # 0 /\ pool.inv[j].controller < pool.inv[i].controller

(* ------------------------------------------------------------------ *)
(* C17                                                                *)
(* ------------------------------------------------------------------ *)
\* The credential's text occurs in a string of the response body
ContainsCredential(resp) ==
    \E i \in 1..Len(resp.body.v) : \E j \in 1..Len(resp.body.v[i].s) :
        resp.body.v[i].s[j] \in {env.v[k] : k \in 1..Len(env.v)}
\* The credentials that are set
Credentials == {k \in EnvValues : Truthy(k)}
\* What the invocation saw of the upstream
SeenOutcome == IF netLog = <<>> THEN Outcome("none", 0, EmptyStr) ELSE ObservedOutcome
\* The same request under any other credential gets the same response
SameUnderAnyCredential ==
    \A key \in Credentials : AloneResponse(handler, key, body, SeenOutcome) = response
\* The response was built from the message of an error that node-fetch raised
FromFetchError ==
    \/ SeenOutcome.kind \in {"reject", "bodyFails"}
    \/ SeenOutcome.kind = "body" /\ (handler \in V12Handlers => ResponseOk(upStatus))
                                 /\ JSONParse(upBody.v).threw

\* C17: no response of either handler contains the credential, so two
\* invocations that differ only in the (non-empty) credential and see the
\* same upstream outcome return identical responses, the network-error path
\* included.
C17_ResponseHidesCredential ==
    (pc = "done" /\ CredentialSet) =>
        ~ContainsCredential(response) /\ SameUnderAnyCredential

\* The same statement for the responses that are not built from the message
\* of an error of node-fetch
C17_HiddenUnlessFetchError ==
    (pc = "done" /\ CredentialSet /\ ~FromFetchError) =>
        ~ContainsCredential(response) /\ SameUnderAnyCredential

====
